---- MODULE Spec2Model ----
(***************************************************************************)
(* Model of the agents of agent.h (threes-ai): the n-tuple TD-learning     *)
(* slider (ntuple_slider), the random placer (random_placer) and the       *)
(* heuristic slider (merge_larger_agent), with the argmax helper.          *)
(*                                                                         *)
(* board.h, action.h and weight.h are not part of the sources at hand.     *)
(* What the agents need of them (cell read, transpose, slide, last, hint,  *)
(* bag, the direction codes) is modelled from the design document and is   *)
(* marked so in the model map.                                             *)
(*                                                                         *)
(* Numbers.  Weights, rewards and values are C++ floats.  They are         *)
(* modelled as integers counting units of 1/Unit, alpha as a number of     *)
(* halves.  All values that occur are dyadic rationals with few bits, on   *)
(* which float arithmetic is exact (see ExactArithmetic).                  *)
(***************************************************************************)
EXTENDS Integers, Sequences, FiniteSets, TLC

\* ------------------------------------------------------------------ bounds

\* take_action and close_episode calls of one run of the learning agent
MaxSteps == 4
\* largest number of weight tables tried for get_weights
MaxTables == 3

\* one float unit is Unit model units (a power of two)
Unit == 2 ^ 5
\* float values stay exact below this many model units (24-bit mantissa)
ExactLimit == 2 ^ 24

\* ------------------------------------------------------------------ board

\* board::LEFT .. board::DOWN: the slide codes 0..3.  The placer's table
\* gives code 3 the right edge {3,7,11,15}, which the design document names
\* as the edge a LEFT slide vacates; the other codes follow the table alike.
UP == 0
RIGHT == 1
DOWN == 2
LEFT == 3
\* board::last() before any slide
NOSLIDE == 4

\* action(): the empty "no action" value
NoAction == -1

\* a board is a sequence of 16 ranks; position p is cell p + 1
Cell(b, pos) == b[pos + 1]

Row(b, r) == <<b[4 * r + 1], b[4 * r + 2], b[4 * r + 3], b[4 * r + 4]>>

Transpose(b) == [k \in 1..16 |-> b[((k - 1) % 4) * 4 + ((k - 1) \div 4) + 1]]

Reflect(b) == [k \in 1..16 |-> b[((k - 1) \div 4) * 4 + (3 - ((k - 1) % 4)) + 1]]

\* score of merging rank 1 with rank 2
ONETWO_SCORE == 5
SPACE_SCORE == 1

RECURSIVE MergeScan(_, _, _, _)
\* the pivot scan over the tiles of one row, toward the left edge
MergeScan(tiles, pivot, out, score) ==
  IF tiles = <<>>
  THEN [row |-> IF pivot = 0 THEN out ELSE Append(out, pivot), score |-> score]
  ELSE LET c == Head(tiles) IN
       IF pivot = 0 THEN MergeScan(Tail(tiles), c, out, score)
       ELSE IF c + pivot = 3
            THEN MergeScan(Tail(tiles), 0, Append(out, 3), score + ONETWO_SCORE)
       ELSE IF c > 2 /\ c = pivot
            THEN MergeScan(Tail(tiles), 0, Append(out, c + 1), score + c)
       ELSE MergeScan(Tail(tiles), c, Append(out, pivot), score)

IsTile(x) == x # 0

\* a row after the scan: the tiles it left, then empty cells
PadRow(m) ==
  [row |-> [k \in 1..4 |-> IF k <= Len(m.row) THEN m.row[k] ELSE 0],
   score |-> m.score]

SlideRowLeft(row) == PadRow(MergeScan(SelectSeq(row, IsTile), 0, <<>>, 0))

\* the sentinel -1 when no cell changed, else the new board and the score
SlideOutcome(b, nb, score) ==
  IF nb = b THEN [board |-> b, reward |-> -1] ELSE [board |-> nb, reward |-> score]

SlideRows(b, rs) ==
  SlideOutcome(b, [k \in 1..16 |-> rs[(k - 1) \div 4].row[((k - 1) % 4) + 1]],
               rs[0].score + rs[1].score + rs[2].score + rs[3].score)

SlideLeft(b) == SlideRows(b, [r \in 0..3 |-> SlideRowLeft(Row(b, r))])

\* the board turned so that a slide toward op is a slide to the left
Orient(b, op) ==
  CASE op = LEFT -> b
    [] op = RIGHT -> Reflect(b)
    [] op = UP -> Transpose(b)
    [] op = DOWN -> Reflect(Transpose(b))

\* the board turned back
Restore(s, op) ==
  [board |-> CASE op = LEFT -> s.board
               [] op = RIGHT -> Reflect(s.board)
               [] op = UP -> Transpose(s.board)
               [] op = DOWN -> Transpose(Reflect(s.board)),
   reward |-> s.reward]

\* board::slide(op): the afterstate and the reward, -1 when nothing moves
Slide(b, op) == Restore(SlideLeft(Orient(b, op)), op)

\* ------------------------------------------------------------------ state

VARIABLES
  \* weight_agent / ntuple_slider
  net,        \* the weight tables: net[table][slot], in model units
  tuple_n,    \* net.size(), the number of tables
  tableSize,  \* the size every table was given by init=
  alpha,      \* the learning rate, in halves
  encodings,  \* the configured patterns, each a sequence of positions
  t,          \* the trajectory: records [addrs, r]
  \* history of the calls, kept for the properties
  lastOp,     \* the handler that ran last
  calls,      \* take_action calls since open_episode: [b, rewards, act]
  passLog,    \* the steps of the latest close_episode, in processing order
  prevLoss,   \* the losses of the pass before it on the same trajectory
  passes,     \* close_episode calls on the trajectory as it is
  steps,      \* take_action and close_episode calls so far
  w,          \* the addresses get_weights returned last
  \* random_placer
  after,      \* the board given to the placer: [cells, last, hint, bag]
  placed,     \* what random_placer::take_action did
  \* merge_larger_agent
  before,     \* the board given to the heuristic slider
  merged      \* what merge_larger_agent::take_action returned

vars == <<net, tuple_n, tableSize, alpha, encodings, t, lastOp, calls, passLog,
          prevLoss, passes, steps, w, after, placed, before, merged>>

sliderVars == <<net, tuple_n, tableSize, alpha, encodings, t, lastOp, calls,
                passLog, prevLoss, passes, steps, w>>
placerVars == <<after, placed>>
mergerVars == <<before, merged>>

\* ------------------------------------------------------------------ n-tuple slider

RECURSIVE PackIndex(_, _, _)
\* idx = (idx << 4) | b(e) over the cells of one pattern (the patterns of
\* the model have at most three cells: no bit leaves the uint32_t)
PackIndex(enc, b, idx) ==
  IF enc = <<>> THEN idx
  ELSE PackIndex(Tail(enc), b, (idx * 16) + Cell(b, Head(enc)))

\* the table of the pattern at position i (from 0)
TableOf(i) == i % 2

\* ntuple_slider::get_weights: the address <<table, slot>> of every pattern
get_weights(b) ==
  [i \in 1..Len(encodings) |-> <<TableOf(i - 1), PackIndex(encodings[i], b, 0)>>]

RECURSIVE SumWeights(_, _)
\* the sum of the weights at a sequence of addresses
SumWeights(store, addrs) ==
  IF addrs = <<>> THEN 0
  ELSE store[Head(addrs)[1]][Head(addrs)[2]] + SumWeights(store, Tail(addrs))

\* floor(log(x)) for 1 <= x < 1097: the number of powers of e up to x
FloorLog(x) == Cardinality({th \in {3, 8, 21, 55, 149, 404} : th <= x})

\* ntuple_slider::reward_fn: 1 << floor(log(r + 1)) << 5
reward_fn(r) == (2 ^ FloorLog(r + 1)) * 32

\* std::numeric_limits<float>::lowest(), below every value that occurs
Lowest == -(2 ^ 30)

\* argmax: std::distance(first, std::min_element(first, last))
argmax(s) ==
  CHOOSE i \in 0..(Len(s) - 1) :
    /\ \A j \in 1..Len(s) : s[j] >= s[i + 1]
    /\ \A j \in 1..i : s[j] > s[i + 1]

\* reward_fn(_r) + _v for a legal slide, lowest() for an illegal one
CandidateOf(s) ==
  IF s.reward = -1 THEN Lowest
  ELSE reward_fn(s.reward) * Unit + SumWeights(net, get_weights(s.board))

\* the candidate value take_action computes for direction i
Candidate(b, i) == CandidateOf(Slide(b, i))

\* the addresses of the board before the slide recorded, not the afterstate's
ChosenBeforeState(b, rewards, best_action, s) ==
  [b |-> b, rewards |-> rewards, best |-> best_action, r |-> s.reward,
   entry |-> IF s.reward # -1
             THEN <<[addrs |-> get_weights(b), r |-> reward_fn(s.reward) * Unit]>>
             ELSE <<>>,
   act |-> IF s.reward = -1 THEN NoAction ELSE best_action]

\* the end of take_action: s is the slide of the chosen direction
Chosen(b, rewards, best_action, s) ==
  [b |-> b, rewards |-> rewards, best |-> best_action, r |-> s.reward,
   entry |-> IF s.reward # -1
             THEN <<[addrs |-> get_weights(s.board), r |-> reward_fn(s.reward) * Unit]>>
             ELSE <<>>,
   act |-> IF s.reward = -1 THEN NoAction ELSE best_action]

Choose(b, rewards, best_action) == Chosen(b, rewards, best_action, Slide(b, best_action))

Select(b, rewards) == Choose(b, rewards, argmax(rewards))

\* ntuple_slider::take_action on board b: what it computes and returns
TakeActionResult(b) == Select(b, [i \in 1..4 |-> Candidate(b, i - 1)])

\* the learning rate left out: loss instead of alpha * loss
MulAlphaMissing(x) == x

\* alpha * x
MulAlpha(x) == (alpha * x) \div 2

RECURSIVE ApplyAll(_, _, _)
\* a sign slip: *w -= delta
ApplyAllSubtracting(store, addrs, delta) ==
  IF addrs = <<>> THEN store
  ELSE LET a == Head(addrs) IN
       ApplyAll([store EXCEPT ![a[1]][a[2]] = @ - delta], Tail(addrs), delta)

\* for (auto& w : current_state) *w += delta, one occurrence after the other
ApplyAll(store, addrs, delta) ==
  IF addrs = <<>> THEN store
  ELSE LET a == Head(addrs) IN
       ApplyAll([store EXCEPT ![a[1]][a[2]] = @ + delta], Tail(addrs), delta)

\* the weights at a sequence of addresses
ReadAll(store, addrs) == [i \in 1..Len(addrs) |-> store[addrs[i][1]][addrs[i][2]]]

\* one step of the loop, given what it read and computed
StepRecord(k, store, r, next_value, current_value, loss, updated) ==
  [k |-> k, r |-> r, next_value |-> next_value, current_value |-> current_value,
   loss |-> loss, read |-> ReadAll(store, t[k].addrs),
   left |-> ReadAll(updated, t[k].addrs)]

RECURSIVE ClosePass(_, _, _, _, _)
ClosePassUpdated(k, store, r, next_value, log, current_value, loss, updated) ==
  ClosePass(k - 1, updated, t[k].r, current_value,
            Append(log, StepRecord(k, store, r, next_value, current_value, loss, updated)))

ClosePassLoss(k, store, r, next_value, log, current_value, loss) ==
  ClosePassUpdated(k, store, r, next_value, log, current_value, loss,
                   ApplyAll(store, t[k].addrs, MulAlpha(loss)))

ClosePassValue(k, store, r, next_value, log, current_value) ==
  ClosePassLoss(k, store, r, next_value, log, current_value,
                r + next_value - current_value)

\* the loop of close_episode from step k down to the first: the store it
\* leaves and, per step, what it read and computed
ClosePass(k, store, r, next_value, log) ==
  IF k = 0 THEN [net |-> store, log |-> log]
  ELSE ClosePassValue(k, store, r, next_value, log, SumWeights(store, t[k].addrs))

\* ------------------------------------------------------------------ inputs

EmptyBoard == [k \in 1..16 |-> 0]
\* tile a at position p and tile c at position q
WithTiles(p, a, q, c) == [EmptyBoard EXCEPT ![p + 1] = a, ![q + 1] = c]
\* no slide is legal
AllOnes == [k \in 1..16 |-> 1]
\* only the slide toward the empty top row is legal
TopRowFree == [k \in 1..16 |-> IF k <= 4 THEN 0 ELSE 1]

\* the boards given to ntuple_slider::take_action
SliderBoards ==
  {AllOnes, TopRowFree}
    \cup {WithTiles(5, 1, 6, 0), WithTiles(5, 1, 6, 2), WithTiles(5, 3, 9, 3)}

\* pattern lists of one-cell patterns (tables of 16 slots): one pattern; two
\* patterns on two tables; three patterns, the first and the third the same
\* cell on the same table
EncodingChoices ==
  { << <<1>> >>,
    << <<1>>, <<4>> >>,
    << <<1>>, <<4>>, <<1>> >> }

\* alpha = 0 (the constructor's default), 1/2 and 3/2
AlphaChoices == {0, 1, 3}

\* the stores the agent starts from: init= zeroes, load= anything
ZeroNet == [tb \in 0..1 |-> [slot \in 0..15 |-> 0]]
LoadedNet ==
  [tb \in 0..1 |-> [slot \in 0..15 |-> (((slot + tb + 2) % 3) - 1) * 64 * Unit]]

IdlePlacer == after = <<>> /\ placed = <<>>
IdleMerger == before = <<>> /\ merged = <<>>

\* ------------------------------------------------------------------ the learning agent

InitSlider ==
  /\ tuple_n = 2
  /\ tableSize = 16
  /\ net \in {ZeroNet, LoadedNet}
  /\ alpha \in AlphaChoices
  /\ encodings \in EncodingChoices
  /\ t = <<>>
  /\ lastOp = "new"
  /\ calls = <<>>
  /\ passLog = <<>>
  /\ prevLoss = <<>>
  /\ passes = 0
  /\ steps = 0
  /\ w = <<>>
  /\ IdlePlacer
  /\ IdleMerger

\* ntuple_slider::open_episode
OpenEpisode ==
  /\ t' = <<>>
  /\ lastOp' = "open"
  /\ calls' = <<>>
  /\ passLog' = <<>>
  /\ prevLoss' = <<>>
  /\ passes' = 0
  /\ UNCHANGED <<net, tuple_n, tableSize, alpha, encodings, steps, w>>
  /\ UNCHANGED <<placerVars, mergerVars>>

\* what take_action leaves behind
TakeActionDone(res) ==
  /\ t' = t \o res.entry
  /\ calls' = Append(calls, [b |-> res.b, rewards |-> res.rewards, act |-> res.act])

\* ntuple_slider::take_action(b)
TakeAction(b) ==
  /\ steps < MaxSteps
  /\ TakeActionDone(TakeActionResult(b))
  /\ lastOp' = "take"
  /\ passLog' = <<>>
  /\ prevLoss' = <<>>
  /\ passes' = 0
  /\ steps' = steps + 1
  /\ UNCHANGED <<net, tuple_n, tableSize, alpha, encodings, w>>
  /\ UNCHANGED <<placerVars, mergerVars>>

\* what close_episode leaves behind
CloseEpisodeDone(res) ==
  /\ net' = res.net
  /\ passLog' = res.log

\* ntuple_slider::close_episode
CloseEpisode ==
  /\ steps < MaxSteps
  /\ CloseEpisodeDone(ClosePass(Len(t), net, 0, 0, <<>>))
  /\ prevLoss' = IF passes = 0 THEN <<>>
                 ELSE [k \in 1..Len(passLog) |-> passLog[k].loss]
  /\ passes' = passes + 1
  /\ lastOp' = "close"
  /\ steps' = steps + 1
  /\ UNCHANGED <<t, calls, tuple_n, tableSize, alpha, encodings, w>>
  /\ UNCHANGED <<placerVars, mergerVars>>

NextSlider ==
  \/ OpenEpisode
  \/ \E b \in SliderBoards : TakeAction(b)
  \/ CloseEpisode

SpecSlider == InitSlider /\ [][NextSlider]_vars

\* ------------------------------------------------------------------ properties of the learning agent

Abs(x) == IF x < 0 THEN -x ELSE x

\* the directions that are legal on board b
LegalSlides(b) == {d \in 0..3 : Slide(b, d).reward # -1}

RECURSIVE SumSeq(_)
SumSeq(xs) == IF xs = <<>> THEN 0 ELSE Head(xs) + SumSeq(Tail(xs))

\* how often address a is listed in addrs
Occurrences(addrs, a) == Cardinality({i \in 1..Len(addrs) : addrs[i] = a})

\* the calls that returned a slide
ReturnedSlide(c) == c.act # NoAction

\* every value of the store and of the latest pass is a float: the products
\* with alpha came out whole and nothing needs more than 24 bits
ExactArithmetic ==
  /\ \A tb \in 0..1 : \A slot \in 0..(tableSize - 1) : Abs(net[tb][slot]) < ExactLimit
  /\ \A j \in 1..Len(passLog) :
       /\ (alpha * passLog[j].loss) % 2 = 0
       /\ Abs(alpha * passLog[j].loss) < ExactLimit
       /\ Abs(passLog[j].current_value) < ExactLimit

\* C1: when take_action returns slide(d), the candidate value of d is at
\* least the candidate value of each of the four directions (it selects the
\* maximum), an illegal direction's candidate value being the lowest float.
C1_SelectsMaximum ==
  \A n \in 1..Len(calls) :
    ReturnedSlide(calls[n]) =>
      \A j \in 1..4 : calls[n].rewards[calls[n].act + 1] >= calls[n].rewards[j]

\* C2: on a board with a legal slide take_action returns a slide that is
\* legal on that board; it returns "no action" only when all four slides
\* are illegal.
C2_NeverIllegal ==
  \A n \in 1..Len(calls) :
    /\ LegalSlides(calls[n].b) # {} => calls[n].act \in LegalSlides(calls[n].b)
    /\ calls[n].act = NoAction => LegalSlides(calls[n].b) = {}

\* the step of log that touched address a last before step j, 0 if none did
LastTouch(log, j, a) ==
  LET touching == {i \in 1..(j - 1) : Occurrences(t[log[i].k].addrs, a) > 0}
  IN IF touching = {} THEN 0 ELSE CHOOSE i \in touching : \A i2 \in touching : i2 <= i

\* the weight at address a when step j of the pass starts: what the latest
\* earlier step left there, or the weight before the pass
WeightAtStep(log, j, a) ==
  LET i == LastTouch(log, j, a)
  IN IF i = 0 THEN net[a[1]][a[2]]
     ELSE log[i].left[CHOOSE x \in 1..Len(log[i].left) : t[log[i].k].addrs[x] = a]

\* one step of the backward pass, as the TD update is described
TDStep(log, j) ==
  LET rec == log[j]
      addrs == t[rec.k].addrs
  IN /\ rec.k = Len(t) - j + 1
     /\ IF j = 1 THEN rec.next_value = 0 /\ rec.r = 0
        ELSE /\ rec.next_value = log[j - 1].current_value
             /\ rec.r = t[log[j - 1].k].r
     /\ \A i \in 1..Len(addrs) : rec.read[i] = WeightAtStep(log, j, addrs[i])
     /\ rec.current_value = SumSeq(rec.read)
     /\ rec.loss = rec.r + rec.next_value - rec.current_value
     /\ \A i \in 1..Len(addrs) :
          2 * (rec.left[i] - rec.read[i]) = Occurrences(addrs, addrs[i]) * alpha * rec.loss

\* C3: close_episode goes from the last recorded step to the first, starting
\* with next_value = 0 and pending_reward = 0; each step reads the sum of its
\* weights as they are then, computes loss = pending_reward + next_value -
\* current_value, adds alpha * loss to the weight of every address occurrence
\* (k * alpha * loss for a weight listed k times) and hands the value it read
\* and the step's reward on to the next (earlier) step; nothing else changes.
C3_BackwardPass ==
  [][lastOp' = "close" =>
       /\ Len(passLog') = Len(t)
       /\ \A j \in 1..Len(passLog') : TDStep(passLog', j)
       /\ \A tb \in 0..1 : \A slot \in 0..(tableSize - 1) :
            net'[tb][slot] = WeightAtStep(passLog', Len(passLog') + 1, <<tb, slot>>)]_vars

\* a pass over two steps, with a weight listed twice in a step, that moved it
C3_Witness ==
  /\ lastOp = "close"
  /\ Len(passLog) = 2
  /\ \E j \in 1..2 : \E i \in 1..Len(passLog[j].read) :
       /\ Occurrences(t[passLog[j].k].addrs, t[passLog[j].k].addrs[i]) = 2
       /\ passLog[j].left[i] # passLog[j].read[i]
  /\ passLog[2].next_value # 0

\* C6: the trajectory is empty right after open_episode and empty again right
\* after close_episode returns.
C6_DiscardedAtEnd ==
  /\ lastOp = "open" => t = <<>>
  /\ lastOp = "close" => t = <<>>

\* no weight address is listed twice in the trajectory, neither within a
\* step nor in two steps
DistinctAddresses ==
  \A j1, j2 \in 1..Len(t) :
    \A i1 \in 1..Len(t[j1].addrs) : \A i2 \in 1..Len(t[j2].addrs) :
      t[j1].addrs[i1] = t[j2].addrs[i2] => (j1 = j2 /\ i1 = i2)

\* over the pass that just ended, every weight of step j of log moved by
\* exactly alpha * loss of that step
MovedByAlphaLoss(log, j) ==
  \A i \in 1..Len(t[log[j].k].addrs) :
    LET a == t[log[j].k].addrs[i]
    IN 2 * (net'[a[1]][a[2]] - net[a[1]][a[2]]) = alpha * log[j].loss

\* n * alpha <= 1 for the n addresses of every step of the trajectory
SmallSteps == \A k \in 1..Len(t) : Len(t[k].addrs) * alpha <= 2

\* C7 as claimed, taken where it is most likely to hold (no weight address
\* listed twice, n * alpha <= 1 in every step): a pass moves each updated
\* weight by exactly alpha * loss, and from one pass over the same trajectory
\* to the next the magnitude of each step's loss does not grow.
C7_LossShrinksEveryStep ==
  [][(lastOp' = "close" /\ DistinctAddresses /\ SmallSteps) =>
       /\ \A j \in 1..Len(passLog') : MovedByAlphaLoss(passLog', j)
       /\ passes' >= 2 =>
            \A j \in 1..Len(passLog') : Abs(passLog'[j].loss) <= Abs(prevLoss'[j])]_vars

\* C7 as amended: on a trajectory that lists no weight address twice, a pass
\* moves each updated weight by exactly alpha * loss of its step, and when
\* 0 <= n * alpha <= 2 for the n addresses of the last recorded step, the
\* magnitude of that step's loss does not grow from one pass to the next.
C7_LastStepLossShrinks ==
  [][(lastOp' = "close" /\ DistinctAddresses) =>
       /\ \A j \in 1..Len(passLog') : MovedByAlphaLoss(passLog', j)
       /\ (passes' >= 2 /\ Len(t) >= 1 /\ Len(t[Len(t)].addrs) * alpha <= 4) =>
            Abs(passLog'[1].loss) <= Abs(prevLoss'[1])]_vars

\* a second pass over two steps without a repeated address, in which the
\* loss of the last step shrank without vanishing
C7_Witness ==
  /\ lastOp = "close"
  /\ passes = 2
  /\ Len(t) = 2
  /\ DistinctAddresses
  /\ Len(t[2].addrs) * alpha <= 4
  /\ passLog[1].loss # 0
  /\ Abs(passLog[1].loss) < Abs(prevLoss[1])

\* the trajectory entry of a call that returned a slide
EntryOf(c) ==
  [addrs |-> get_weights(Slide(c.b, c.act).board),
   r |-> reward_fn(Slide(c.b, c.act).reward) * Unit]

\* the trajectory is the entries of the calls that returned a slide, in order
TrajectoryOfCalls ==
  LET slid == SelectSeq(calls, ReturnedSlide)
  IN /\ Len(t) = Len(slid)
     /\ \A k \in 1..Len(slid) : t[k] = EntryOf(slid[k])

\* C10: the trajectory holds one entry per take_action call since
\* open_episode that returned a slide, in call order: the weight addresses of
\* the afterstate of the returned direction and the transformed reward of
\* that slide; a call that returns "no action" appends nothing, and no
\* take_action call changes a weight.
C10_TrajectoryRecordsSlides ==
  /\ []TrajectoryOfCalls
  /\ [][lastOp' = "take" => net' = net]_vars

\* a call that returned "no action" and a later one that returned a slide
C10_Witness ==
  /\ Len(calls) = 2
  /\ calls[1].act = NoAction
  /\ calls[2].act # NoAction
  /\ Len(t) = 1
  /\ lastOp = "take"

\* ------------------------------------------------------------------ get_weights alone

\* pattern lists of one to four patterns of two cells or one
WeightEncodings ==
  { << <<0, 1>> >>,
    << <<0, 1>>, <<4, 5>> >>,
    << <<5, 0>>, <<1, 4>> >>,
    << <<0, 4>>, <<1, 5>>, <<5>> >>,
    << <<0, 1>>, <<4, 5>>, <<1, 0>>, <<5, 4>> >> }

\* the boards whose weights are looked up
WeightBoards ==
  {EmptyBoard, AllOnes, WithTiles(0, 3, 1, 2), WithTiles(4, 15, 5, 15),
   WithTiles(0, 1, 5, 2), WithTiles(1, 6, 4, 3), WithTiles(0, 2, 4, 2),
   WithTiles(1, 1, 5, 1)}

\* the learning agent's part when another agent is looked at
IdleSlider ==
  /\ net = <<>>
  /\ tuple_n = 0
  /\ tableSize = 0
  /\ encodings = <<>>
  /\ w = <<>>
  /\ alpha = 0
  /\ t = <<>>
  /\ lastOp = "new"
  /\ calls = <<>>
  /\ passLog = <<>>
  /\ prevLoss = <<>>
  /\ passes = 0
  /\ steps = 0

\* an agent built with init= of one to MaxTables tables of 256 slots; the
\* weights themselves are not read by get_weights and are left out
InitWeights ==
  /\ tuple_n \in 1..MaxTables
  /\ tableSize = 256
  /\ net = <<>>
  /\ encodings \in WeightEncodings
  /\ w = <<>>
  /\ alpha = 0
  /\ t = <<>>
  /\ lastOp = "new"
  /\ calls = <<>>
  /\ passLog = <<>>
  /\ prevLoss = <<>>
  /\ passes = 0
  /\ steps = 0
  /\ IdlePlacer
  /\ IdleMerger

\* a call of ntuple_slider::get_weights(b)
GetWeights(b) ==
  /\ w' = get_weights(b)
  /\ UNCHANGED <<net, tuple_n, tableSize, alpha, encodings, t, lastOp, calls,
                 passLog, prevLoss, passes, steps>>
  /\ UNCHANGED <<placerVars, mergerVars>>

NextWeights == \E b \in WeightBoards : GetWeights(b)

SpecWeights == InitWeights /\ [][NextWeights]_vars

\* C5: the table used for the pattern at position i is table i modulo the
\* number of tables, an existing table, and the slot lies in [0, size).
C5_TableModuloCount ==
  \A i \in 1..Len(w) :
    /\ w[i][1] = (i - 1) % tuple_n
    /\ w[i][1] \in 0..(tuple_n - 1)
    /\ w[i][2] \in 0..(tableSize - 1)

\* ------------------------------------------------------------------ random placer

\* the tables of codes 1 and 3 exchanged
spacesExchanged(d) ==
  CASE d = 0 -> <<12, 13, 14, 15>>
    [] d = 1 -> <<3, 7, 11, 15>>
    [] d = 2 -> <<0, 1, 2, 3>>
    [] d = 3 -> <<0, 4, 8, 12>>
    [] d = 4 -> <<0, 1, 2, 3, 4, 5, 6, 7, 8, 9, 10, 11, 12, 13, 14, 15>>

\* random_placer::spaces: the positions tried after a slide with code d
spaces(d) ==
  CASE d = 0 -> <<12, 13, 14, 15>>
    [] d = 1 -> <<0, 4, 8, 12>>
    [] d = 2 -> <<0, 1, 2, 3>>
    [] d = 3 -> <<3, 7, 11, 15>>
    [] d = 4 -> <<0, 1, 2, 3, 4, 5, 6, 7, 8, 9, 10, 11, 12, 13, 14, 15>>

\* the orders of 1..n
IndexOrders(n) == {p \in [1..n -> 1..n] : \A i, j \in 1..n : p[i] = p[j] => i = j}

\* what std::shuffle can leave of s: every order of a short s; of the
\* 16-cell list its 16 rotations, so that every cell comes first in one
ShuffleOutcomes(s) ==
  IF Len(s) <= 4
  THEN {[i \in 1..Len(s) |-> s[p[i]]] : p \in IndexOrders(Len(s))}
  ELSE {[i \in 1..Len(s) |-> s[((i - 1 + k) % Len(s)) + 1]] : k \in 0..(Len(s) - 1)}

\* the first position of order that is empty on cells, -1 if none is
FirstEmpty(order, cells) ==
  LET empties == {i \in 1..Len(order) : Cell(cells, order[i]) = 0}
  IN IF empties = {} THEN -1
     ELSE order[CHOOSE i \in empties : \A i2 \in empties : i <= i2]

\* bag[num++] = t for every tile the board reports, rank by rank
BagArray(bag) ==
  [i \in 1..(bag[1] + bag[2] + bag[3]) |->
     IF i <= bag[1] THEN 1 ELSE IF i <= bag[1] + bag[2] THEN 2 ELSE 3]

\* values a read outside the array may yield
StrayValues == {0, 2, 7}

\* the tile and the hint taken from the shuffled array arr, its length not
\* above 3; a read below the array yields a stray value
DrawTiles(arr, hint, stray1, stray2) ==
  IF hint # 0
  THEN [crash |-> FALSE, tile |-> hint,
        hint |-> IF Len(arr) >= 1 THEN arr[Len(arr)] ELSE stray1]
  ELSE [crash |-> FALSE, tile |-> IF Len(arr) >= 1 THEN arr[Len(arr)] ELSE stray1,
        hint |-> IF Len(arr) >= 2 THEN arr[Len(arr) - 1] ELSE stray2]

\* what filling, shuffling and reading int bag[3] can come to.  More than
\* three tiles overrun the array: the call may end abnormally (crash) or go
\* on with a tile and a hint that are anything.
Draws(brd) ==
  IF brd.bag[1] + brd.bag[2] + brd.bag[3] > 3
  THEN {[crash |-> TRUE, tile |-> 0, hint |-> 0]}
         \cup {[crash |-> FALSE, tile |-> s1, hint |-> s2] : s1, s2 \in StrayValues}
  ELSE {DrawTiles(arr, brd.hint, s[1], s[2]) :
          arr \in ShuffleOutcomes(BagArray(brd.bag)), s \in StrayValues \X StrayValues}

\* the positions the loop over the shuffled space can stop at, -1 for none
Positions(brd) ==
  {FirstEmpty(order, brd.cells) : order \in ShuffleOutcomes(spaces(brd.last))}

\* what take_action returns: action(), or action::place(pos, tile, hint)
PlacerResult(pos, drawn) ==
  IF pos = -1 THEN [kind |-> "none"]
  ELSE IF drawn.crash THEN [kind |-> "crash"]
  ELSE [kind |-> "place", pos |-> pos, tile |-> drawn.tile, hint |-> drawn.hint]

\* a board of ones with the cells of holes empty
Holes(holes) == [k \in 1..16 |-> IF (k - 1) \in holes THEN 0 ELSE 1]

PlacerBoards ==
  {Holes(h) : h \in {{}, {3, 7}, {5}, {7, 13}, 0..15}}

\* the largest count of one rank the board reports
MaxBagCount == 2

\* the boards given to the placer: any edge, any bag of up to MaxBagCount
\* tiles a rank, a hint pending or, with at least two tiles left, none
InitPlacer ==
  /\ after \in [cells : PlacerBoards, last : 0..4, hint : 0..3,
                bag : [1..3 -> 0..MaxBagCount]]
  /\ ~(after.hint = 0 /\ after.bag[1] + after.bag[2] + after.bag[3] < 2)
  /\ placed = <<>>
  /\ IdleSlider
  /\ IdleMerger

\* random_placer::take_action(after)
Place ==
  /\ \E pos \in Positions(after) : \E drawn \in Draws(after) :
       placed' = PlacerResult(pos, drawn)
  /\ UNCHANGED <<after, sliderVars, mergerVars>>

NextPlacer == Place

SpecPlacer == InitPlacer /\ [][NextPlacer]_vars

\* the edge a slide with code d vacates; every cell before the first slide
VacatedEdge(d) ==
  CASE d = LEFT -> {3, 7, 11, 15}
    [] d = UP -> {p \in 0..15 : p \div 4 = 3}
    [] d = RIGHT -> {p \in 0..15 : p % 4 = 0}
    [] d = DOWN -> {p \in 0..15 : p \div 4 = 0}
    [] d = NOSLIDE -> 0..15

C8_TileAndHintFromBag ==
  (placed # <<>> /\ placed.kind = "place") =>
    /\ after.hint # 0 => placed.tile = after.hint
    /\ after.hint = 0 => (placed.tile \in 1..3 /\ after.bag[placed.tile] > 0)
    /\ placed.hint \in 1..3
    /\ placed.hint \in 1..3 =>
         after.bag[placed.hint]
           - (IF after.hint = 0 /\ placed.tile = placed.hint THEN 1 ELSE 0) > 0

\* ------------------------------------------------------------------ heuristic slider

RECURSIVE ScanRow(_, _, _, _)
\* the inner loop of merge_larger over _row[c], c = 1..3, acc the running
\* [score, space]; after a merge at c < 3 the pivot is the next cell and
\* that cell is passed over
ScanRow(row, c, pivot, acc) ==
  IF c > 3 THEN acc
  ELSE IF row[c + 1] = 0
       THEN ScanRow(row, c + 1, pivot, [acc EXCEPT !.space = SPACE_SCORE])
  ELSE IF pivot = 0
       THEN ScanRow(row, c + 1, row[c + 1], acc)
  ELSE IF row[c + 1] + pivot = 3
       THEN ScanRow(row, IF c < 3 THEN c + 2 ELSE c + 1,
                    IF c < 3 THEN row[c + 2] ELSE pivot,
                    [acc EXCEPT !.score = @ + ONETWO_SCORE])
  ELSE IF row[c + 1] > 2 /\ pivot > 2 /\ row[c + 1] = pivot
       THEN ScanRow(row, IF c < 3 THEN c + 2 ELSE c + 1,
                    IF c < 3 THEN row[c + 2] ELSE pivot,
                    [acc EXCEPT !.score = @ + pivot])
  ELSE ScanRow(row, c + 1, row[c + 1], acc)

RECURSIVE ScanRows(_, _, _)
\* the outer loop of merge_larger over the rows r..3
ScanRows(b, r, acc) ==
  IF r > 3 THEN acc
  ELSE ScanRows(b, r + 1, ScanRow(Row(b, r), 1, Row(b, r)[1], acc))

ScoreOf(acc) == acc.score + acc.space

\* merge_larger_agent::merge_larger(b, transpose)
merge_larger(b, transpose) ==
  ScoreOf(ScanRows(IF transpose THEN Transpose(b) ELSE b, 0,
                   [score |-> 0, space |-> 0]))

\* the else-if chain of take_action on the scores h and v
MergerChain(b, h, v) ==
  IF h >= v /\ Slide(b, LEFT).reward # -1 THEN LEFT
  ELSE IF h < v /\ Slide(b, UP).reward # -1 THEN UP
  ELSE IF Slide(b, RIGHT).reward # -1 THEN RIGHT
  ELSE IF Slide(b, DOWN).reward # -1 THEN DOWN
  ELSE NoAction

MergerResult(b, h, v) == [act |-> MergerChain(b, h, v), h |-> h, v |-> v]

\* the rows the boards of the heuristic slider are made of
MergerRows == {<<0, 0, 0, 0>>, <<1, 1, 1, 1>>, <<0, 1, 1, 1>>, <<3, 3, 1, 2>>}

BoardOfRows(rs) == [k \in 1..16 |-> rs[(k - 1) \div 4][((k - 1) % 4) + 1]]

MergerBoards == {BoardOfRows(rs) : rs \in [0..3 -> MergerRows]}

InitMerger ==
  /\ before \in MergerBoards
  /\ merged = <<>>
  /\ IdleSlider
  /\ IdlePlacer

\* merge_larger_agent::take_action(before)
MergerTakeAction ==
  /\ merged' = MergerResult(before, merge_larger(before, FALSE),
                            merge_larger(before, TRUE))
  /\ UNCHANGED <<before, sliderVars, placerVars>>

NextMerger == MergerTakeAction

SpecMerger == InitMerger /\ [][NextMerger]_vars

\* C9: take_action returns a slide that is legal whenever one of the four
\* slides is legal on the board, and "no action" only when all four are
\* illegal, whatever the horizontal and the vertical score are.
C9_SlidesWheneverLegal ==
  merged # <<>> =>
    /\ LegalSlides(before) # {} => merged.act \in LegalSlides(before)
    /\ merged.act = NoAction => LegalSlides(before) = {}

====
